---- MODULE Spec2Model ----
(***************************************************************************)
(* Model of the room reservation engine of roomy (src/main.go): the        *)
(* per-room reservation lists, Room.Reserve / Room.DeleteReservation, the  *)
(* booking form's confirm path and the undo / redo command log.            *)
(*                                                                         *)
(* Go slices are 0-based, TLA+ sequences 1-based: a Go index i addresses   *)
(* element i + 1 of the sequence.  A time.Time is modelled as an integer   *)
(* instant (hours since day 0); the form combines a calendar date with a   *)
(* time of day, which Combine does.  The Student and RoomName fields and   *)
(* the room's Position are carried by the code but read by none of the     *)
(* operations modelled here and are left out.                              *)
(*                                                                         *)
(* The slot functions of the grid view (generateTimeSlots,                 *)
(* areSlotsContiguous, incrementTimeSlot, the Book Now handler) work on    *)
(* times of day in minutes and on 12-hour clock labels; the user table     *)
(* with createUser, authenticateUser and the login form is modelled too.   *)
(***************************************************************************)
EXTENDS Integers, Sequences, FiniteSets, TLC

\* ---------------------------------------------------------------- bounds
MaxTime == 2
MaxRes == 2
MaxSlots == 17
MaxSel == 3

\* --------------------------------------------------------------- domains
RoomNames == {"Study Room 1", "Study Room 2"}
Day1 == "2025-01-10"
Day2 == "2025-01-11"
Times == 0..MaxTime
Purposes == {"Meeting"}
Leaders == {"ann"}
Priorities == {0, 1}
DayLen == 24
Threads == {"t1", "t2"}

\* The intervals the concurrent callers ask for: two that touch and one that
\* overlaps both.
RaceSlots == {<<Day1, 0, 1>>, <<Day1, 1, 2>>, <<Day1, 0, 2>>}

\* The reservations Room.Reserve is called with directly: every interval of
\* the first day with start <= end, and the whole second day.
Slots ==
    {<<Day1, p[1], p[2]>> : p \in {q \in Times \X Times : q[1] <= q[2]}}
        \cup {<<Day2, 0, MaxTime>>}

\* What the grid's Book Now handler opens the form with: start is the first
\* selected slot and end the last one plus the interval, so start < end, except
\* that the last slot of the day plus the interval wraps past midnight.
FormSlots ==
    {<<Day1, p[1], p[2]>> : p \in {q \in Times \X Times : q[1] < q[2]}}
        \cup {<<Day2, 0, MaxTime>>} \cup {<<Day1, MaxTime, 0>>}

\* Minutes: the unit of the times of day and durations of the slot functions.
DayMinutes == 1440
Hour == 60

\* The day window of generateTimeSlots: 8 AM to 11 PM.
WindowStart == 480
WindowEnd == 1380

\* The intervals generateTimeSlots is called with: negative, zero, the hour
\* the views pass, one more that divides the 15 hours of the window and two
\* that do not.
Intervals == {-60, 0, 60, 90, 420, 840}

\* The intervals areSlotsContiguous is called with.
GapIntervals == {60, 120}

\* The times of day whose labels are selected on the grid.
SelectTimes == {480, 540, 600, 1380}

\* The names, passwords and roles typed into the registration and login forms.
Usernames == {"ann", "bob"}
Passwords == {"password-1", "password-2", "short"}
Roles == {"User", "Admin"}

\* createUser refuses passwords shorter than this.
MinPasswordLen == 8

VARIABLES
    rooms,      \* room name -> its Reservations slice
    undoStack,  \* sequence of ReservationCommand, top last
    redoStack,
    file,       \* the reservation lists last written to reservations.json
    ret,        \* outcome of the last operation
    trip,       \* history: the last accepted booking and the undo / redo right after it
    mu,         \* room name -> the thread holding the room's mutex, or "free"
    pc,         \* thread -> where it stands in the method it is running
    loc,        \* thread -> the method it is running, its arguments and locals
    access,     \* the <<thread, room>> reads and writes of a reservation list
                \* made by the last step
    won,        \* history: the Reserve calls that returned nil
    gen,        \* the running or last call of generateTimeSlots
    contig,     \* the last call of areSlotsContiguous: arguments and result
    users,      \* the user table, in creation order
    currentUser, \* index into users of the logged-in user, 0 when none
    authRet     \* outcome of the last createUser or login

vars == <<rooms, undoStack, redoStack, file, ret, trip, mu, pc, loc, access, won,
          gen, contig, users, currentUser, authRet>>

seqVars == <<undoStack, redoStack, ret, trip>>
concVars == <<mu, pc, loc, access, won>>
resVars == <<rooms, undoStack, redoStack, file, ret, trip, mu, pc, loc, access, won>>
slotVars == <<gen, contig>>
authVars == <<users, currentUser, authRet>>
auxVars == <<gen, contig, users, currentUser, authRet>>

\* ------------------------------------------------------- pure functions
\* getPriority is a placeholder in the code: every purpose maps to 0.
getPriority(purpose) == 0

\* Number of the calendar day a date string parses to (time.Parse "2006-01-02").
DayNum(date) == IF date = Day1 THEN 1 ELSE 2

\* time.Date(dateOnly.Year(), Month(), Day(), t.Hour(), t.Minute(), ...)
Combine(date, t) == DayNum(date) * DayLen + t

\* The Reservation value the form builds from its fields.
FormReservation(date, s, e, purpose, leader) ==
    [Date |-> date, StartTime |-> Combine(date, s), EndTime |-> Combine(date, e),
     Purpose |-> purpose, Leader |-> leader, Priority |-> getPriority(purpose),
     Active |-> TRUE]

\* Variant: only asks whether the candidate starts inside the stored interval.
Blocks_StartInside(res, reservation) ==
    /\ res.Active
    /\ res.Date = reservation.Date
    /\ reservation.StartTime >= res.StartTime
    /\ reservation.StartTime < res.EndTime

\* Variant: closed intervals, touching endpoints count as a conflict.
Blocks_Closed(res, reservation) ==
    /\ res.Active
    /\ res.Date = reservation.Date
    /\ reservation.StartTime <= res.EndTime
    /\ reservation.EndTime >= res.StartTime

\* The condition of the loop body of Room.Reserve for one stored reservation.
Blocks(res, reservation) ==
    /\ res.Active
    /\ res.Date = reservation.Date
    /\ reservation.StartTime < res.EndTime
    /\ reservation.EndTime > res.StartTime

\* The loop of Room.Reserve: some stored reservation makes it return an error.
HasConflict(list, reservation) ==
    \E i \in 1..Len(list) : Blocks(list[i], reservation)

\* Room.Reserve on a reservation list: the error flag and the resulting list.
Reserve(list, reservation) ==
    IF HasConflict(list, reservation)
    THEN [err |-> TRUE, list |-> list]
    ELSE [err |-> FALSE, list |-> Append(list, [reservation EXCEPT !.Active = TRUE])]

\* Variant: the reservation is removed from the slice instead of marked.
DeleteReservation_Hard(list, index) ==
    IF index >= 0 /\ index < Len(list)
    THEN SubSeq(list, 1, index) \o SubSeq(list, index + 2, Len(list))
    ELSE list

\* Room.DeleteReservation on a reservation list (Go index).
DeleteReservation(list, index) ==
    IF index >= 0 /\ index < Len(list)
    THEN [list EXCEPT ![index + 1].Active = FALSE]
    ELSE list

\* ReservationCommand.Execute: Reserve (error ignored), then index = len - 1.
Execute(cmd, list) ==
    LET r == Reserve(list, cmd.reservation)
    IN [cmd |-> [cmd EXCEPT !.index = Len(r.list) - 1], list |-> r.list, err |-> r.err]

\* ReservationCommand.Undo
Undo(cmd, list) == DeleteReservation(list, cmd.index)

\* The day number of the instant time.Parse returns for a layout without a
\* date ("3:04 PM"): the zero date, before every calendar date of a booking.
ZeroDay == 0

\* time.Parse(timeLayout12Hour, timeSlot) for the slot of time of day t.
ParseSlot(t) == ZeroDay * DayLen + t

\* The test of the loop body of checkRoomReservation for one stored reservation.
Counts(res, date, slotTime) ==
    /\ res.Active
    /\ res.Date = date
    /\ \/ slotTime = res.StartTime
       \/ slotTime > res.StartTime /\ slotTime < res.EndTime

\* checkRoomReservation on a reservation list.
checkRoomReservation(list, date, timeSlot) ==
    \E i \in 1..Len(list) : Counts(list[i], date, ParseSlot(timeSlot))

\* t.Format("3:04 PM"): the 12-hour clock label of an instant's time of day,
\* as <<hour 1..12, minute, "AM" or "PM">>.
Format(t) ==
    LET m == t % DayMinutes
        h == m \div 60
    IN <<IF h % 12 = 0 THEN 12 ELSE h % 12, m % 60, IF h < 12 THEN "AM" ELSE "PM">>

\* time.Parse("3:04 PM", label): minutes since midnight of the zero date.
ParseLabel(label) ==
    ((label[1] % 12) + (IF label[3] = "PM" THEN 12 ELSE 0)) * 60 + label[2]

\* incrementTimeSlot: parse, add the interval, format.
incrementTimeSlot(timeSlot, interval) == Format(ParseLabel(timeSlot) + interval)

\* areSlotsContiguous: every label is interval after the one before it, in the
\* order given.  (The labels of the grid always parse.)
areSlotsContiguous(slots, interval) ==
    IF Len(slots) <= 1
    THEN TRUE
    ELSE \A i \in 2..Len(slots) :
            ParseLabel(slots[i]) - ParseLabel(slots[i - 1]) = interval

\* sort.Slice(slots, ...) by parsed time.
SortByTime(slots) == SortSeq(slots, LAMBDA a, b : ParseLabel(a) < ParseLabel(b))

\* The labels on the grid that can be selected.
SlotLabels == {Format(t) : t \in SelectTimes}

\* The slot lists of at most MaxSel labels.
SlotLists == UNION {[1..n -> SlotLabels] : n \in 0..MaxSel}

\* len(password)
PasswordLen(password) == IF password = "short" THEN 5 ELSE 10

\* bcrypt.GenerateFromPassword: a hash that only the password it was made
\* from matches.
GenerateFromPassword(password) == [alg |-> "bcrypt", plain |-> password]

\* bcrypt.CompareHashAndPassword returns nil.
CompareHashAndPassword(hash, password) == hash.plain = password

\* authenticateUser on a user table: the index of the user returned (0 for
\* nil) and the error's message ("" for nil).
authenticateUser(table, username, password) ==
    LET found == {i \in 1..Len(table) : table[i].Username = username}
    IN IF found = {}
       THEN [user |-> 0, err |-> "user not found"]
       ELSE LET i == CHOOSE x \in found : \A y \in found : x <= y
            IN IF CompareHashAndPassword(table[i].PasswordHash, password)
               THEN [user |-> i, err |-> ""]
               ELSE [user |-> 0, err |-> "incorrect password"]

\* The outcome of the last operation: its name, whether it failed (an error
\* or an early return), and, for an accepted booking of the form, whether the
\* redo stack held commands when it started.
Ret(op, err, hadRedo) == [op |-> op, err |-> err, hadRedo |-> hadRedo]

NoRes == [Date |-> "", StartTime |-> 0, EndTime |-> 0, Purpose |-> "",
          Leader |-> "", Priority |-> 0, Active |-> FALSE]

NoCall == [op |-> "", room |-> "", res |-> NoRes, index |-> 0, err |-> FALSE]

NoTrip == [stage |-> "none", room |-> "", pre |-> <<>>, post |-> <<>>]

\* No call of generateTimeSlots yet.
NoGen == [pc |-> "idle", interval |-> 0, t |-> 0, slots |-> <<>>]

\* No call of areSlotsContiguous yet.
NoContig == [op |-> "", slots |-> <<>>, interval |-> 0, result |-> FALSE,
             start |-> <<>>, end |-> <<>>]

\* No createUser or login yet.
NoAuth == [op |-> "", username |-> "", err |-> ""]

\* The candidate a direct call of Room.Reserve is given.
Candidate(date, s, e, purpose, leader, prio) ==
    [FormReservation(date, s, e, purpose, leader) EXCEPT !.Priority = prio]

\* Number of reservations stored over all rooms.
TotalRes(rs) == Len(rs["Study Room 1"]) + Len(rs["Study Room 2"])

\* ------------------------------------------------------------------ Init
Init ==
    /\ rooms = [r \in RoomNames |-> <<>>]
    /\ undoStack = <<>>
    /\ redoStack = <<>>
    /\ file = [r \in RoomNames |-> <<>>]
    /\ ret = Ret("init", FALSE, FALSE)
    /\ trip = NoTrip
    /\ mu = [r \in RoomNames |-> "free"]
    /\ pc = [t \in Threads |-> "idle"]
    /\ loc = [t \in Threads |-> NoCall]
    /\ access = {}
    /\ won = {}
    /\ gen = NoGen
    /\ contig = NoContig
    /\ users = <<>>
    /\ currentUser = 0
    /\ authRet = NoAuth

\* --------------------------------------------------------------- actions
\* A direct call room.Reserve(reservation).
ReserveCall(r, date, s, e, purpose, leader, prio) ==
    LET c == Candidate(date, s, e, purpose, leader, prio)
        out == Reserve(rooms[r], c)
    IN /\ rooms' = [rooms EXCEPT ![r] = out.list]
       /\ TotalRes(rooms') <= MaxRes
       /\ file' = IF out.err THEN file ELSE rooms'
       /\ ret' = Ret("Reserve", out.err, FALSE)
       /\ UNCHANGED <<undoStack, redoStack>>

\* A direct call room.DeleteReservation(index).
DeleteCall(r, index) ==
    /\ rooms' = [rooms EXCEPT ![r] = DeleteReservation(rooms[r], index)]
    /\ file' = IF index >= 0 /\ index < Len(rooms[r]) THEN rooms' ELSE file
    /\ ret' = Ret("Delete", FALSE, FALSE)
    /\ UNCHANGED <<undoStack, redoStack>>

\* Variant: the command is pushed and the redo stack cleared whatever Reserve
\* returned.
Confirm_PushAlways(r, date, s, e, purpose, leader) ==
    LET c == FormReservation(date, s, e, purpose, leader)
        out == Reserve(rooms[r], c)
        cmd == [reservation |-> c, room |-> r, index |-> 0]
    IN /\ TotalRes([rooms EXCEPT ![r] = out.list]) <= MaxRes
       /\ IF purpose = "" \/ leader = "" \/ c.StartTime > c.EndTime
          THEN /\ ret' = Ret("Form", TRUE, FALSE)
               /\ UNCHANGED <<rooms, undoStack, redoStack, file>>
          ELSE /\ rooms' = [rooms EXCEPT ![r] = out.list]
               /\ file' = IF out.err THEN file ELSE rooms'
               /\ undoStack' = Append(undoStack, cmd)
               /\ redoStack' = <<>>
               /\ ret' = Ret("Confirm", out.err, ~out.err /\ Len(redoStack) > 0)

\* Variant: an accepted booking does not clear the redo stack.
Confirm_KeepRedo(r, date, s, e, purpose, leader) ==
    LET c == FormReservation(date, s, e, purpose, leader)
        out == Reserve(rooms[r], c)
        cmd == [reservation |-> c, room |-> r, index |-> 0]
    IN /\ TotalRes([rooms EXCEPT ![r] = out.list]) <= MaxRes
       /\ IF purpose = "" \/ leader = "" \/ c.StartTime > c.EndTime
          THEN /\ ret' = Ret("Form", TRUE, FALSE)
               /\ UNCHANGED <<rooms, undoStack, redoStack, file>>
          ELSE /\ rooms' = [rooms EXCEPT ![r] = out.list]
               /\ file' = IF out.err THEN file ELSE rooms'
               /\ undoStack' = IF out.err THEN undoStack ELSE Append(undoStack, cmd)
               /\ redoStack' = redoStack
               /\ ret' = Ret("Confirm", out.err, ~out.err /\ Len(redoStack) > 0)

\* The booking form: OnSubmit validation, then the confirm callback.
Confirm(r, date, s, e, purpose, leader) ==
    LET c == FormReservation(date, s, e, purpose, leader)
        out == Reserve(rooms[r], c)
        cmd == [reservation |-> c, room |-> r, index |-> 0]
    IN /\ TotalRes([rooms EXCEPT ![r] = out.list]) <= MaxRes
       /\ IF purpose = "" \/ leader = "" \/ c.StartTime > c.EndTime
          THEN /\ ret' = Ret("Form", TRUE, FALSE)
               /\ UNCHANGED <<rooms, undoStack, redoStack, file>>
          ELSE /\ rooms' = [rooms EXCEPT ![r] = out.list]
               /\ file' = IF out.err THEN file ELSE rooms'
               /\ undoStack' = IF out.err THEN undoStack ELSE Append(undoStack, cmd)
               /\ redoStack' = IF out.err THEN redoStack ELSE <<>>
               /\ ret' = Ret("Confirm", out.err, ~out.err /\ Len(redoStack) > 0)

\* Variant: the undone command is dropped instead of pushed on the redo stack.
undo_Drop ==
    IF Len(undoStack) = 0
    THEN /\ ret' = Ret("undoEmpty", FALSE, FALSE)
         /\ UNCHANGED <<rooms, undoStack, redoStack, file>>
    ELSE LET cmd == undoStack[Len(undoStack)]
             list == Undo(cmd, rooms[cmd.room])
         IN /\ undoStack' = SubSeq(undoStack, 1, Len(undoStack) - 1)
            /\ rooms' = [rooms EXCEPT ![cmd.room] = list]
            /\ file' = IF cmd.index >= 0 /\ cmd.index < Len(rooms[cmd.room])
                       THEN rooms' ELSE file
            /\ redoStack' = redoStack
            /\ ret' = Ret("undo", FALSE, FALSE)

undo ==
    IF Len(undoStack) = 0
    THEN /\ ret' = Ret("undoEmpty", FALSE, FALSE)
         /\ UNCHANGED <<rooms, undoStack, redoStack, file>>
    ELSE LET cmd == undoStack[Len(undoStack)]
             list == Undo(cmd, rooms[cmd.room])
         IN /\ undoStack' = SubSeq(undoStack, 1, Len(undoStack) - 1)
            /\ rooms' = [rooms EXCEPT ![cmd.room] = list]
            /\ file' = IF cmd.index >= 0 /\ cmd.index < Len(rooms[cmd.room])
                       THEN rooms' ELSE file
            /\ redoStack' = Append(redoStack, cmd)
            /\ ret' = Ret("undo", FALSE, FALSE)

redo ==
    IF Len(redoStack) = 0
    THEN /\ ret' = Ret("redoEmpty", FALSE, FALSE)
         /\ UNCHANGED <<rooms, undoStack, redoStack, file>>
    ELSE LET cmd == redoStack[Len(redoStack)]
             out == Execute(cmd, rooms[cmd.room])
         IN /\ TotalRes([rooms EXCEPT ![cmd.room] = out.list]) <= MaxRes
            /\ redoStack' = SubSeq(redoStack, 1, Len(redoStack) - 1)
            /\ rooms' = [rooms EXCEPT ![cmd.room] = out.list]
            /\ file' = IF out.err THEN file ELSE rooms'
            /\ undoStack' = Append(undoStack, out.cmd)
            /\ ret' = Ret("redo", out.err, FALSE)

\* The program as it runs: the booking form, Ctrl+Z and Ctrl+Y are the only
\* handlers that touch a reservation list or the command stacks.
Next ==
    \/ /\ \E r \in RoomNames, sl \in FormSlots,
             purpose \in Purposes \cup {""}, leader \in Leaders \cup {""} :
             Confirm(r, sl[1], sl[2], sl[3], purpose, leader)
       /\ UNCHANGED <<trip, mu, pc, loc, access, won, auxVars>>
    \/ undo /\ UNCHANGED <<trip, mu, pc, loc, access, won, auxVars>>
    \/ redo /\ UNCHANGED <<trip, mu, pc, loc, access, won, auxVars>>

Spec == Init /\ [][Next]_vars

\* The methods of Room called directly, with reservations as the form builds
\* them and with intervals of no length.
NextApi ==
    \/ /\ \E r \in RoomNames, sl \in Slots, purpose \in Purposes, leader \in Leaders :
             ReserveCall(r, sl[1], sl[2], sl[3], purpose, leader, getPriority(purpose))
       /\ UNCHANGED <<trip, mu, pc, loc, access, won, auxVars>>
    \/ /\ \E r \in RoomNames, index \in -1..MaxRes : DeleteCall(r, index)
       /\ UNCHANGED <<trip, mu, pc, loc, access, won, auxVars>>

SpecApi == Init /\ [][NextApi]_vars

\* The methods of Room called directly, with reservations of any priority.
NextPrio ==
    \/ /\ \E r \in RoomNames, sl \in Slots, purpose \in Purposes, leader \in Leaders,
             prio \in Priorities :
             ReserveCall(r, sl[1], sl[2], sl[3], purpose, leader, prio)
       /\ UNCHANGED <<trip, mu, pc, loc, access, won, auxVars>>
    \/ /\ \E r \in RoomNames, index \in -1..MaxRes : DeleteCall(r, index)
       /\ UNCHANGED <<trip, mu, pc, loc, access, won, auxVars>>

SpecPrio == Init /\ [][NextPrio]_vars

\* The program as it runs, remembering the room's list before and after the
\* last accepted booking while undo and then redo directly follow it.
NextTrip ==
    \/ \E r \in RoomNames, sl \in FormSlots,
          purpose \in Purposes \cup {""}, leader \in Leaders \cup {""} :
          /\ Confirm(r, sl[1], sl[2], sl[3], purpose, leader)
          /\ trip' = IF ret'.op = "Confirm" /\ ~ret'.err
                     THEN [stage |-> "booked", room |-> r,
                           pre |-> rooms[r], post |-> rooms'[r]]
                     ELSE NoTrip
          /\ UNCHANGED <<concVars, auxVars>>
    \/ /\ undo
       /\ trip' = IF trip.stage = "booked" THEN [trip EXCEPT !.stage = "undone"]
                  ELSE NoTrip
       /\ UNCHANGED <<concVars, auxVars>>
    \/ /\ redo
       /\ trip' = IF trip.stage = "undone" THEN [trip EXCEPT !.stage = "redone"]
                  ELSE NoTrip
       /\ UNCHANGED <<concVars, auxVars>>

SpecTrip == Init /\ [][NextTrip]_vars

\* ------------------------------------------------------- the time slots
\* generateTimeSlots(interval) is entered, by a view that starts with nothing
\* selected: t := start, slots empty.
generateTimeSlots(interval) ==
    /\ gen.pc \in {"idle", "done"}
    /\ gen' = [pc |-> "loop", interval |-> interval, t |-> WindowStart, slots |-> <<>>]
    /\ contig' = NoContig

\* Variant: the loop stops before the end of the window instead of at it.
GenLoop_Exclusive ==
    /\ gen.pc = "loop"
    /\ IF gen.t < WindowEnd
       THEN /\ Len(gen.slots) < MaxSlots
            /\ gen' = [gen EXCEPT !.slots = Append(@, Format(gen.t)),
                                   !.t = @ + gen.interval]
       ELSE gen' = [gen EXCEPT !.pc = "done"]
    /\ UNCHANGED contig

\* One evaluation of the loop condition t.Before(end) || t.Equal(end), with
\* the append and t = t.Add(interval) when it holds and the return when not.
GenLoop ==
    /\ gen.pc = "loop"
    /\ IF gen.t <= WindowEnd
       THEN /\ Len(gen.slots) < MaxSlots
            /\ gen' = [gen EXCEPT !.slots = Append(@, Format(gen.t)),
                                   !.t = @ + gen.interval]
       ELSE gen' = [gen EXCEPT !.pc = "done"]
    /\ UNCHANGED contig

\* A call areSlotsContiguous(slots, interval), once the slots exist.
ContiguousCall(slots, interval) ==
    /\ gen.pc = "done"
    /\ contig' = [NoContig EXCEPT !.op = "areSlotsContiguous", !.slots = slots,
                                   !.interval = interval,
                                   !.result = areSlotsContiguous(slots, interval)]
    /\ UNCHANGED gen

\* The Book Now handler of the grid with a non-empty selection of one room,
\* read from the map in the order slots: sort, contiguity check, and the start
\* and end labels the form is opened with.
BookNow(slots, interval) ==
    LET sorted == SortByTime(slots)
        ok == areSlotsContiguous(sorted, interval)
    IN /\ gen.pc = "done"
       /\ Len(slots) > 0
       /\ \A i, j \in 1..Len(slots) : i # j => slots[i] # slots[j]
       /\ contig' = [op |-> "BookNow", slots |-> sorted, interval |-> interval,
                     result |-> ok,
                     start |-> IF ok THEN sorted[1] ELSE <<>>,
                     end |-> IF ok THEN incrementTimeSlot(sorted[Len(sorted)], interval)
                             ELSE <<>>]
       /\ UNCHANGED gen

\* The slot functions: generation of the labels, the contiguity check called
\* directly and through the Book Now handler.
NextSlots ==
    \/ \E interval \in Intervals :
          generateTimeSlots(interval) /\ UNCHANGED <<resVars, authVars>>
    \/ GenLoop /\ UNCHANGED <<resVars, authVars>>
    \/ \E slots \in SlotLists, interval \in GapIntervals :
          ContiguousCall(slots, interval) /\ UNCHANGED <<resVars, authVars>>
    \/ \E slots \in SlotLists :
          BookNow(slots, Hour) /\ UNCHANGED <<resVars, authVars>>

SpecSlots == Init /\ [][NextSlots]_vars

\* ------------------------------------------------------------- the users
\* createUser(username, password, role), called by the registration forms.
createUser(username, password, role) ==
    LET err == IF PasswordLen(password) < MinPasswordLen
               THEN "password must be at least 8 characters long"
               ELSE IF \E i \in 1..Len(users) : users[i].Username = username
               THEN "username already exists"
               ELSE ""
    IN /\ users' = IF err = ""
                   THEN Append(users, [Username |-> username,
                                       PasswordHash |-> GenerateFromPassword(password),
                                       Role |-> role])
                   ELSE users
       /\ authRet' = [op |-> "createUser", username |-> username, err |-> err]
       /\ UNCHANGED currentUser

\* The login form's callback: authenticateUser, then currentUser = user when
\* it returned no error.
Login(username, password) ==
    LET out == authenticateUser(users, username, password)
    IN /\ authRet' = [op |-> "login", username |-> username, err |-> out.err]
       /\ currentUser' = IF out.err = "" THEN out.user ELSE currentUser
       /\ UNCHANGED users

\* Registration and login.
NextAuth ==
    \/ \E username \in Usernames, password \in Passwords, role \in Roles :
          createUser(username, password, role) /\ UNCHANGED <<resVars, slotVars>>
    \/ \E username \in Usernames, password \in Passwords :
          Login(username, password) /\ UNCHANGED <<resVars, slotVars>>

SpecAuth == Init /\ [][NextAuth]_vars

\* ------------------------------------------------- the methods, step by step
\* Threads run the methods concurrently; a step is what a method does between
\* two points where another thread can run: taking the mutex, the loop over
\* the list, the append, saveReservations, the deferred Unlock and return.

\* Reserve calls begun and not yet returned.
Pending == Cardinality({t \in Threads : loc[t].op \in {"Reserve", "Execute"}})

\* A thread calls room.Reserve(reservation).
CallReserve(t, r, sl) ==
    /\ pc[t] = "idle"
    /\ TotalRes(rooms) + Pending < MaxRes
    /\ pc' = [pc EXCEPT ![t] = "lock"]
    /\ loc' = [loc EXCEPT ![t] = [NoCall EXCEPT !.op = "Reserve", !.room = r,
                  !.res = FormReservation(sl[1], sl[2], sl[3], "Meeting", "ann")]]
    /\ access' = {}
    /\ UNCHANGED <<rooms, file, mu, won>>

\* A thread calls room.DeleteReservation(index).
CallDelete(t, r, index) ==
    /\ pc[t] = "idle"
    /\ pc' = [pc EXCEPT ![t] = "lock"]
    /\ loc' = [loc EXCEPT ![t] = [NoCall EXCEPT !.op = "Delete", !.room = r,
                                                 !.index = index]]
    /\ access' = {}
    /\ UNCHANGED <<rooms, file, mu, won>>

\* A thread calls checkRoomReservation(room, date, timeSlot).
CallCheck(t, r) ==
    /\ pc[t] = "idle"
    /\ pc' = [pc EXCEPT ![t] = "lock"]
    /\ loc' = [loc EXCEPT ![t] = [NoCall EXCEPT !.op = "Check", !.room = r]]
    /\ access' = {}
    /\ UNCHANGED <<rooms, file, mu, won>>

\* A thread calls cmd.Execute(), which first calls cmd.room.Reserve.
CallExecute(t, r, sl) ==
    /\ pc[t] = "idle"
    /\ TotalRes(rooms) + Pending < MaxRes
    /\ pc' = [pc EXCEPT ![t] = "lock"]
    /\ loc' = [loc EXCEPT ![t] = [NoCall EXCEPT !.op = "Execute", !.room = r,
                  !.res = FormReservation(sl[1], sl[2], sl[3], "Meeting", "ann")]]
    /\ access' = {}
    /\ UNCHANGED <<rooms, file, mu, won>>

\* Variant: the method goes on without waiting for the mutex.
Lock_NoWait(t) ==
    /\ pc[t] = "lock"
    /\ mu' = [mu EXCEPT ![loc[t].room] = t]
    /\ pc' = [pc EXCEPT ![t] = "body"]
    /\ access' = {}
    /\ UNCHANGED <<rooms, file, loc, won>>

\* r.mu.Lock()
Lock(t) ==
    /\ pc[t] = "lock"
    /\ mu[loc[t].room] = "free"
    /\ mu' = [mu EXCEPT ![loc[t].room] = t]
    /\ pc' = [pc EXCEPT ![t] = "body"]
    /\ access' = {}
    /\ UNCHANGED <<rooms, file, loc, won>>

\* The body after Lock: the overlap loop of Reserve, the index test and the
\* write of DeleteReservation, the loop of checkRoomReservation.
Body(t) ==
    LET r == loc[t].room
        op == loc[t].op
    IN /\ pc[t] = "body"
       /\ access' = {<<t, r>>}
       /\ IF op \in {"Reserve", "Execute"}
          THEN /\ loc' = [loc EXCEPT ![t].err = HasConflict(rooms[r], loc[t].res)]
               /\ pc' = [pc EXCEPT ![t] = IF loc'[t].err THEN "unlock" ELSE "append"]
               /\ rooms' = rooms
          ELSE IF op = "Delete"
          THEN /\ rooms' = [rooms EXCEPT ![r] = DeleteReservation(@, loc[t].index)]
               /\ pc' = [pc EXCEPT ![t] =
                            IF loc[t].index >= 0 /\ loc[t].index < Len(rooms[r])
                            THEN "save" ELSE "unlock"]
               /\ loc' = loc
          ELSE /\ pc' = [pc EXCEPT ![t] = "unlock"]
               /\ UNCHANGED <<rooms, loc>>
       /\ UNCHANGED <<file, mu, won>>

\* reservation.Active = true; r.Reservations = append(r.Reservations, reservation)
AppendStep(t) ==
    LET r == loc[t].room
    IN /\ pc[t] = "append"
       /\ rooms' = [rooms EXCEPT ![r] = Append(@, [loc[t].res EXCEPT !.Active = TRUE])]
       /\ access' = {<<t, r>>}
       /\ pc' = [pc EXCEPT ![t] = "save"]
       /\ UNCHANGED <<file, mu, loc, won>>

\* saveReservations(): encodes the global rooms slice, every room's list.
Save(t) ==
    /\ pc[t] = "save"
    /\ file' = rooms
    /\ access' = {<<t, r>> : r \in RoomNames}
    /\ pc' = [pc EXCEPT ![t] = "unlock"]
    /\ UNCHANGED <<rooms, mu, loc, won>>

\* The deferred r.mu.Unlock() and the return; Execute goes on to its second line.
Unlock(t) ==
    /\ pc[t] = "unlock"
    /\ mu' = [mu EXCEPT ![loc[t].room] = "free"]
    /\ access' = {}
    /\ won' = IF loc[t].op = "Reserve" /\ ~loc[t].err
              THEN won \cup {[thread |-> t, room |-> loc[t].room, res |-> loc[t].res]}
              ELSE won
    /\ pc' = [pc EXCEPT ![t] = IF loc[t].op = "Execute" THEN "len" ELSE "idle"]
    /\ loc' = [loc EXCEPT ![t] = IF loc[t].op = "Execute" THEN @ ELSE NoCall]
    /\ UNCHANGED <<rooms, file>>

\* c.index = len(c.room.Reservations) - 1, after Reserve has returned.
LenStep(t) ==
    /\ pc[t] = "len"
    /\ access' = {<<t, loc[t].room>>}
    /\ pc' = [pc EXCEPT ![t] = "idle"]
    /\ loc' = [loc EXCEPT ![t] = NoCall]
    /\ UNCHANGED <<rooms, file, mu, won>>

\* Threads calling Reserve, DeleteReservation, checkRoomReservation and Execute.
NextConc ==
    \/ \E t \in Threads, r \in RoomNames, sl \in RaceSlots :
          CallReserve(t, r, sl) /\ UNCHANGED <<seqVars, auxVars>>
    \/ \E t \in Threads, r \in RoomNames : CallDelete(t, r, 0) /\ UNCHANGED <<seqVars, auxVars>>
    \/ \E t \in Threads, r \in RoomNames : CallCheck(t, r) /\ UNCHANGED <<seqVars, auxVars>>
    \/ \E t \in Threads, r \in RoomNames, sl \in RaceSlots :
          CallExecute(t, r, sl) /\ UNCHANGED <<seqVars, auxVars>>
    \/ \E t \in Threads : Lock(t) /\ UNCHANGED <<seqVars, auxVars>>
    \/ \E t \in Threads : Body(t) /\ UNCHANGED <<seqVars, auxVars>>
    \/ \E t \in Threads : AppendStep(t) /\ UNCHANGED <<seqVars, auxVars>>
    \/ \E t \in Threads : Save(t) /\ UNCHANGED <<seqVars, auxVars>>
    \/ \E t \in Threads : Unlock(t) /\ UNCHANGED <<seqVars, auxVars>>
    \/ \E t \in Threads : LenStep(t) /\ UNCHANGED <<seqVars, auxVars>>

SpecConc == Init /\ [][NextConc]_vars

\* Threads that only call Reserve.
NextRace ==
    \/ \E t \in Threads, r \in RoomNames, sl \in RaceSlots :
          CallReserve(t, r, sl) /\ UNCHANGED <<seqVars, auxVars>>
    \/ \E t \in Threads : Lock(t) /\ UNCHANGED <<seqVars, auxVars>>
    \/ \E t \in Threads : Body(t) /\ UNCHANGED <<seqVars, auxVars>>
    \/ \E t \in Threads : AppendStep(t) /\ UNCHANGED <<seqVars, auxVars>>
    \/ \E t \in Threads : Save(t) /\ UNCHANGED <<seqVars, auxVars>>
    \/ \E t \in Threads : Unlock(t) /\ UNCHANGED <<seqVars, auxVars>>

SpecRace == Init /\ [][NextRace]_vars

\* ================================================================ claims
Top(stack) == stack[Len(stack)]
Front(stack) == SubSeq(stack, 1, Len(stack) - 1)

\* [s1,e1) and [s2,e2) overlap iff s1 < e2 and s2 < e1.
Overlap(a, b) == a.StartTime < b.EndTime /\ b.StartTime < a.EndTime

\* The active reservations of a list, in order.
ActiveOf(list) == SelectSeq(list, LAMBDA x : x.Active)

\* Same date, start, end, purpose and leader.
SamePayload(a, b) ==
    /\ a.Date = b.Date /\ a.StartTime = b.StartTime /\ a.EndTime = b.EndTime
    /\ a.Purpose = b.Purpose /\ a.Leader = b.Leader

\* C1: in every state reached by bookings, undo and redo, no two distinct
\* active reservations of one room with the same Date overlap.
C1_NoActiveOverlap ==
    \A r \in RoomNames : \A i, j \in 1..Len(rooms[r]) :
        (i # j /\ rooms[r][i].Active /\ rooms[r][j].Active
              /\ rooms[r][i].Date = rooms[r][j].Date)
            => ~Overlap(rooms[r][i], rooms[r][j])

\* Two active reservations share a room and a date, the second accepted right
\* at the end of the first.
C1_Witness ==
    \E r \in RoomNames : \E i, j \in 1..Len(rooms[r]) :
        /\ i < j /\ rooms[r][i].Active /\ rooms[r][j].Active
        /\ rooms[r][i].Date = rooms[r][j].Date
        /\ rooms[r][i].StartTime < rooms[r][i].EndTime
        /\ rooms[r][i].EndTime = rooms[r][j].StartTime
        /\ rooms[r][j].StartTime < rooms[r][j].EndTime

\* An active reservation of the list, on the candidate's date, overlaps it
\* and has equal or better (numerically lower or equal) priority.
TakenByEqualOrBetter(list, c) ==
    \E i \in 1..Len(list) :
        /\ list[i].Active /\ list[i].Date = c.Date
        /\ Overlap(c, list[i])
        /\ list[i].Priority <= c.Priority

\* C5: a booking whose candidate overlaps an active reservation of the same
\* room and date with equal or better priority is answered with an error and
\* changes nothing: no room's list, neither stack.  (A step that reports an
\* error and changes nothing satisfies this whatever booking made it; any other
\* step must not be a booking of such a candidate.)  The same holds of
\* the Reserve call inside redo, which leaves every list as it was.
C5_RejectChangesNothing ==
    [][/\ \/ /\ ret'.err
             /\ rooms' = rooms
             /\ undoStack' = undoStack
             /\ redoStack' = redoStack
          \/ ret'.op # "Confirm"
          \/ \A r \in RoomNames, sl \in FormSlots, purpose \in Purposes, leader \in Leaders :
                LET c == FormReservation(sl[1], sl[2], sl[3], purpose, leader)
                IN ~(/\ c.StartTime <= c.EndTime
                     /\ TakenByEqualOrBetter(rooms[r], c)
                     /\ Confirm(r, sl[1], sl[2], sl[3], purpose, leader))
       /\ (/\ Len(redoStack) > 0
           /\ TakenByEqualOrBetter(rooms[Top(redoStack).room], Top(redoStack).reservation)
           /\ redo)
          => (ret'.err /\ rooms' = rooms)
      ]_vars

\* A booking of the form was just rejected for a conflict, with commands on
\* both stacks.
C5_Witness ==
    /\ ret.op = "Confirm" /\ ret.err
    /\ Len(undoStack) > 0 /\ Len(redoStack) > 0
    /\ \E r \in RoomNames : \E i \in 1..Len(rooms[r]) : rooms[r][i].Active

\* C6: Room.Reserve(c) succeeds, appending c as an active reservation, exactly
\* when no active reservation r of the room with r.Date = c.Date has
\* c.Start < r.End and r.Start < c.End; otherwise it fails and the list stays.
\* A failed call: nothing changed, and every candidate whose call this step
\* can be was blocked.  A successful call: the room grew by the candidate,
\* active, and nothing blocked it.
C6_ReserveIffFree ==
    [][ret'.op = "Reserve" =>
         IF ret'.err
         THEN /\ rooms' = rooms
              /\ \A r \in RoomNames, sl \in Slots, purpose \in Purposes, leader \in Leaders :
                    LET c == Candidate(sl[1], sl[2], sl[3], purpose, leader,
                                       getPriority(purpose))
                    IN \/ \E i \in 1..Len(rooms[r]) :
                            /\ rooms[r][i].Active
                            /\ rooms[r][i].Date = c.Date
                            /\ c.StartTime < rooms[r][i].EndTime
                            /\ rooms[r][i].StartTime < c.EndTime
                       \/ ~ReserveCall(r, sl[1], sl[2], sl[3], purpose, leader,
                                       getPriority(purpose))
         ELSE \E r \in RoomNames :
                /\ Len(rooms'[r]) = Len(rooms[r]) + 1
                /\ rooms' = [rooms EXCEPT ![r] = Append(@, Top(rooms'[r]))]
                /\ Top(rooms'[r]).Active
                /\ \E sl \in Slots, purpose \in Purposes, leader \in Leaders :
                      SamePayload(Top(rooms'[r]),
                                  Candidate(sl[1], sl[2], sl[3], purpose, leader,
                                            getPriority(purpose)))
                /\ ~\E i \in 1..Len(rooms[r]) :
                        /\ rooms[r][i].Active
                        /\ rooms[r][i].Date = Top(rooms'[r]).Date
                        /\ Top(rooms'[r]).StartTime < rooms[r][i].EndTime
                        /\ rooms[r][i].StartTime < Top(rooms'[r]).EndTime
      ]_vars

\* A call was accepted whose start equals the end of an active reservation of
\* the same date, next to an inactive or other-date reservation or not.
C6_Witness ==
    /\ ret.op = "Reserve" /\ ~ret.err
    /\ \E r \in RoomNames : \E i \in 1..Len(rooms[r]) :
          LET n == Len(rooms[r])
          IN /\ i < n /\ rooms[r][i].Active /\ rooms[r][n].Active
             /\ rooms[r][i].Date = rooms[r][n].Date
             /\ rooms[r][i].StartTime < rooms[r][i].EndTime
             /\ rooms[r][i].EndTime = rooms[r][n].StartTime
             /\ rooms[r][n].StartTime < rooms[r][n].EndTime

\* C9: an accepted booking of the form pushes its command (the room and the
\* reservation just stored in it) on top of the undo stack and leaves the redo
\* stack empty; a rejected one changes neither stack.
C9_BookingAndStacks ==
    [][/\ (ret'.op = "Confirm" /\ ~ret'.err) =>
            \E r \in RoomNames :
                /\ Len(rooms'[r]) = Len(rooms[r]) + 1
                /\ Len(undoStack') = Len(undoStack) + 1
                /\ Front(undoStack') = undoStack
                /\ Top(undoStack').room = r
                /\ Top(undoStack').reservation = Top(rooms'[r])
                /\ redoStack' = <<>>
       /\ (ret'.op \in {"Confirm", "Form"} /\ ret'.err) =>
            (undoStack' = undoStack /\ redoStack' = redoStack)
      ]_vars

\* A booking was just accepted while the redo stack held a command.
C9_Witness ==
    /\ ret.op = "Confirm" /\ ~ret.err /\ ret.hadRedo
    /\ Len(undoStack) > 0 /\ redoStack = <<>>

\* C10: undo on an empty undo stack and redo on an empty redo stack change no
\* stack and no list; otherwise undo moves exactly the top command of the undo
\* stack onto the redo stack, and redo moves exactly the top command of the
\* redo stack onto the undo stack (Execute rewrites only its index field).
C10_UndoRedoStacks ==
    [][/\ undo =>
            IF Len(undoStack) = 0
            THEN rooms' = rooms /\ undoStack' = undoStack /\ redoStack' = redoStack
            ELSE /\ undoStack' = Front(undoStack)
                 /\ redoStack' = Append(redoStack, Top(undoStack))
       /\ redo =>
            IF Len(redoStack) = 0
            THEN rooms' = rooms /\ undoStack' = undoStack /\ redoStack' = redoStack
            ELSE /\ redoStack' = Front(redoStack)
                 /\ Len(undoStack') = Len(undoStack) + 1
                 /\ Front(undoStack') = undoStack
                 /\ Top(undoStack').room = Top(redoStack).room
                 /\ Top(undoStack').reservation = Top(redoStack).reservation
      ]_vars

\* A redo just moved a command back onto the undo stack, after the undo that
\* had moved it to the redo stack.
C10_Witness ==
    /\ ret.op = "redo"
    /\ Len(undoStack) > 0 /\ redoStack = <<>>
    /\ \E r \in RoomNames : \E i \in 1..Len(rooms[r]) : ~rooms[r][i].Active

\* C2: after an accepted booking of the form, a directly following undo
\* restores the room's reservations to what they were before the booking, and
\* a redo directly after that restores them to what they were right after the
\* booking.  The lists are compared through their active reservations, which is
\* all a comparison by value can ask of a store that deletes softly.
C2_RoundTrip ==
    /\ trip.stage = "undone" => ActiveOf(rooms[trip.room]) = ActiveOf(trip.pre)
    /\ trip.stage = "redone" => ActiveOf(rooms[trip.room]) = ActiveOf(trip.post)

\* C3: undo on a non-empty undo stack, while the reservation its top command
\* created is still active, deactivates exactly one reservation, of the
\* command's room and with the command's payload, and changes nothing else in
\* any room.
C3_UndoDeactivatesItsOwn ==
    [][(/\ undo
        /\ Len(undoStack) > 0
        /\ \E i \in 1..Len(rooms[Top(undoStack).room]) :
              /\ rooms[Top(undoStack).room][i].Active
              /\ SamePayload(rooms[Top(undoStack).room][i], Top(undoStack).reservation))
       => LET cmd == Top(undoStack)
          IN \E i \in 1..Len(rooms[cmd.room]) :
                /\ rooms[cmd.room][i].Active
                /\ SamePayload(rooms[cmd.room][i], cmd.reservation)
                /\ rooms' = [rooms EXCEPT ![cmd.room][i].Active = FALSE]
      ]_vars

\* C4: when the candidate overlaps active reservations of the same room and
\* date and its priority is strictly better (numerically lower) than that of
\* each of them, Reserve accepts it, stores it as the last, active reservation
\* and leaves none of the reservations it overlapped active.
C4_PriorityOverride ==
    [][\A r \in RoomNames, sl \in Slots, purpose \in Purposes, leader \in Leaders,
          prio \in Priorities :
          LET c == Candidate(sl[1], sl[2], sl[3], purpose, leader, prio)
              hit == {i \in 1..Len(rooms[r]) :
                        /\ rooms[r][i].Active /\ rooms[r][i].Date = c.Date
                        /\ Overlap(c, rooms[r][i])}
          IN (/\ ReserveCall(r, sl[1], sl[2], sl[3], purpose, leader, prio)
              /\ hit # {}
              /\ \A i \in hit : c.Priority < rooms[r][i].Priority)
             => (/\ ~ret'.err
                 /\ Len(rooms'[r]) > 0
                 /\ SamePayload(Top(rooms'[r]), c) /\ Top(rooms'[r]).Active
                 /\ \A i \in hit : i > Len(rooms'[r]) \/ ~rooms'[r][i].Active
                                     \/ ~SamePayload(rooms'[r][i], rooms[r][i]))
      ]_vars

\* C7: every read and write of a room's reservation list is made by a thread
\* that holds that room's mutex.
C7_AccessUnderLock ==
    \A a \in access : mu[a[2]] = a[1]

\* C8: of the Reserve calls on one room whose intervals overlap on one date, at
\* most one returns success, however the calls interleave.
C8_AtMostOneWins ==
    \A a, b \in won :
        (a # b /\ a.room = b.room /\ a.res.Date = b.res.Date)
            => ~Overlap(a.res, b.res)

\* Two calls on one room with overlapping intervals ran at the same time: one
\* has returned success while the other, begun before that, has just found the
\* conflict under the lock.
C8_Witness ==
    \E a \in won : \E t \in Threads :
        /\ t # a.thread
        /\ pc[t] = "unlock" /\ loc[t].op = "Reserve" /\ loc[t].err
        /\ loc[t].room = a.room /\ loc[t].res.Date = a.res.Date
        /\ Overlap(loc[t].res, a.res)

\* The list without its element i.
Without(list, i) == SubSeq(list, 1, i - 1) \o SubSeq(list, i + 1, Len(list))

\* C11: DeleteReservation(index) with index in range marks that reservation
\* inactive and changes nothing else: the list keeps its length and order,
\* every other reservation and every other room stay as they were, and the
\* overlap loop of Reserve and checkRoomReservation answer as if the
\* reservation were not in the list (the test of checkRoomReservation rejects
\* it for every instant, of the zero date or of a calendar date).  With index
\* out of range nothing changes.
C11_SoftDelete ==
    [][\A r \in RoomNames, index \in -1..MaxRes :
          DeleteCall(r, index) =>
            IF index >= 0 /\ index < Len(rooms[r])
            THEN LET i == index + 1
                 IN /\ Len(rooms'[r]) = Len(rooms[r])
                    /\ ~rooms'[r][i].Active
                    /\ rooms'[r][i] = [rooms[r][i] EXCEPT !.Active = FALSE]
                    /\ \A j \in 1..Len(rooms[r]) : j # i => rooms'[r][j] = rooms[r][j]
                    /\ \A q \in RoomNames : q # r => rooms'[q] = rooms[q]
                    /\ \A sl \in Slots, purpose \in Purposes, leader \in Leaders :
                          LET c == Candidate(sl[1], sl[2], sl[3], purpose, leader,
                                             getPriority(purpose))
                          IN HasConflict(rooms'[r], c)
                                <=> HasConflict(Without(rooms[r], i), c)
                    /\ \A date \in {Day1, Day2}, t \in Times :
                          checkRoomReservation(rooms'[r], date, t)
                             <=> checkRoomReservation(Without(rooms[r], i), date, t)
                    /\ \A date \in {Day1, Day2}, t \in Times :
                          /\ ~Counts(rooms'[r][i], date, ParseSlot(t))
                          /\ ~Counts(rooms'[r][i], date, Combine(date, t))
            ELSE rooms' = rooms
      ]_vars

\* A reservation was just deleted from a room that holds another, active one.
C11_Witness ==
    /\ ret.op = "Delete"
    /\ \E r \in RoomNames : \E i, j \in 1..Len(rooms[r]) :
          /\ i # j /\ ~rooms[r][i].Active /\ rooms[r][j].Active
          /\ rooms[r][i].StartTime < rooms[r][i].EndTime

\* The time of day of an instant.
TimeOfDay(instant) == instant % DayLen

\* C12: for every room, date and slot, checkRoomReservation answers true
\* exactly when the room holds an active reservation of that date, stored by
\* the booking form, whose [start, end) contains the slot's time of day.
C12_CheckMatchesBookings ==
    \A r \in RoomNames, date \in {Day1, Day2}, t \in Times :
        checkRoomReservation(rooms[r], date, t)
            <=> \E i \in 1..Len(rooms[r]) :
                    /\ rooms[r][i].Active
                    /\ rooms[r][i].Date = date
                    /\ TimeOfDay(rooms[r][i].StartTime) <= t
                    /\ t < TimeOfDay(rooms[r][i].EndTime)

\* C13: every active reservation of every room has StartTime strictly before
\* EndTime.
C13_StartBeforeEnd ==
    \A r \in RoomNames : \A i \in 1..Len(rooms[r]) :
        rooms[r][i].Active => rooms[r][i].StartTime < rooms[r][i].EndTime

\* An interval generateTimeSlots can step the window with: positive and
\* dividing the time from its start to its end.
IntervalValid(interval) ==
    interval > 0 /\ (WindowEnd - WindowStart) % interval = 0

\* C14: for an interval that is zero, negative or does not divide the day
\* window, generateTimeSlots produces no slot and returns no slot list.
C14_InvalidIntervalFails ==
    (gen.pc # "idle" /\ ~IntervalValid(gen.interval))
        => (gen.pc # "done" /\ gen.slots = <<>>)

\* C15: generateTimeSlots with the 60-minute interval returns 16 labels, the
\* first 8:00 AM and the last 11:00 PM, each 60 minutes after the one before.
C15_HourlySlots ==
    (gen.pc = "done" /\ gen.interval = 60) =>
        /\ Len(gen.slots) = 16
        /\ gen.slots[1] = <<8, 0, "AM">>
        /\ gen.slots[16] = <<11, 0, "PM">>
        /\ \A i \in 1..(Len(gen.slots) - 1) :
              ParseLabel(gen.slots[i + 1]) - ParseLabel(gen.slots[i]) = 60

\* generateTimeSlots has returned for the 60-minute interval.
C15_Witness ==
    gen.pc = "done" /\ gen.interval = 60 /\ Len(gen.slots) > 0

\* C16: areSlotsContiguous answers true exactly when the slots, sorted by
\* time of day, are each interval after the one before; the order the slots
\* are passed in does not matter.
C16_ContiguousWhateverOrder ==
    contig.op # "" =>
        LET sorted == SortByTime(contig.slots)
        IN contig.result
              <=> \A i \in 1..(Len(sorted) - 1) :
                     ParseLabel(sorted[i + 1]) - ParseLabel(sorted[i]) = contig.interval

\* C17: a failed login does not tell which field was wrong: on every user
\* table, authenticateUser gives the same error for a username that is not in
\* the table as for a username that is, with a password that does not match.
C17_SameErrorForBothFields ==
    \A unknown, known \in Usernames, p, q \in Passwords :
        LET a == authenticateUser(users, unknown, p)
            b == authenticateUser(users, known, q)
        IN (/\ ~\E i \in 1..Len(users) : users[i].Username = unknown
            /\ \E i \in 1..Len(users) : users[i].Username = known
            /\ b.err # "")
           => a.err = b.err

\* C18: every command on the undo stack records an index inside its room's
\* list, and the reservation stored there is active and has the date, start,
\* end, purpose and leader of the command's reservation.
C18_CommandIndexPointsAtItsReservation ==
    \A k \in 1..Len(undoStack) :
        LET cmd == undoStack[k]
            list == rooms[cmd.room]
        IN /\ cmd.index >= 0
           /\ cmd.index < Len(list)
           /\ list[cmd.index + 1].Active
           /\ SamePayload(list[cmd.index + 1], cmd.reservation)

====
